---- MODULE Spec2Model ----
(***************************************************************************)
(* salt/states/junos.py: the Junos state module.  Every state function     *)
(* builds the record {name, changes, result, comment}, makes one call      *)
(* through the dispatch table __salt__['junos.<op>'] and stores what that  *)
(* call returns under 'changes'.                                           *)
(*                                                                         *)
(* The functions behind __salt__ are not part of salt/states/junos.py.     *)
(* They are modelled as the Device Session Manager of the design document  *)
(* (lock manager, candidate store, commit controller, command executor);   *)
(* where the document is silent, the docstrings of the state functions     *)
(* are followed.                                                           *)
(***************************************************************************)
EXTENDS Integers, Sequences, FiniteSets, TLC

VARIABLES
    state,      \* lock state of the session: "Connected" or "Locked"
    candidate,  \* candidate (staged) configuration
    active,     \* active (committed) configuration
    history,    \* commit records, most recent first; history[1] is index 0
    op,         \* the state function called last
    call,       \* how it was called: [name, kw]
    calls,      \* the __salt__ invocations it made: <<[fn, args, kwargs]>>
    reply,      \* what the last __salt__ invocation did
    ret,        \* the record the state function returned (NoRet if it raised)
    raised      \* the exception that left the state function ("none" if it returned)

vars == <<state, candidate, active, history, op, call, calls, reply, ret, raised>>

(***************************************************************************)
(* Bounds                                                                  *)
(***************************************************************************)
MaxName == 1        \* configuration files / host names (and the configurations they hold) are 0..MaxName
MaxCommits == 1     \* commit records pushed on top of the initial one

(***************************************************************************)
(* Program constants                                                       *)
(***************************************************************************)
RollbackIdMax == 49     \* "The rollback id value [0-49]"
HistoryCap == 50        \* the device keeps 50 commit records
DefaultId == 0          \* "(default = 0)" documented for id
FactoryConfig == 0      \* the configuration zeroize resets to

Names == 0..MaxName     \* names that denote content: a configuration file, a host name
Labels == 0..1          \* names that only label the state
Configs == 0..MaxName
IdVals == (-1..MaxCommits) \cup {RollbackIdMax + 1}

\* what the device may do to a call: answer, time out, or reject the request
\* (CommitError, ParseError, ValidationError, CommandError)
Faults(fn) ==
    IF fn \in {"junos.commit", "junos.load", "junos.install_config",
               "junos.commit_check", "junos.cli"}
    THEN {"none", "timeout", "reject"}
    ELSE {"none", "timeout"}

(***************************************************************************)
(* Python values                                                           *)
(***************************************************************************)
None == "None"
ArgsNone == [tag |-> "None"]
ArgsSeq(s) == [tag |-> "seq", val |-> s]
EmptyKw == [k \in {} |-> 0]
NoRet == EmptyKw
NoReply == [raised |-> FALSE, out |-> TRUE, message |-> "no call"]

(***************************************************************************)
(* Signatures of the state functions (the parameters after name) and the   *)
(* binding of a call's keyword arguments to them.                          *)
(***************************************************************************)
Signature(f) ==
    CASE f = "rpc" ->
           [required |-> {}, varkw |-> TRUE,
            defaults |-> ("dest" :> None @@ "format" :> "xml" @@ "args" :> ArgsNone)]
      [] f = "rollback" ->
           [required |-> {"id"}, varkw |-> TRUE, defaults |-> EmptyKw]
      [] f = "diff" ->
           [required |-> {"d_id"}, varkw |-> FALSE, defaults |-> EmptyKw]
      [] f = "cli" ->
           [required |-> {}, varkw |-> TRUE, defaults |-> ("format" :> "text")]
      [] f = "file_copy" ->
           [required |-> {}, varkw |-> TRUE, defaults |-> ("dest" :> None)]
      [] f = "get_table" ->
           [required |-> {"table", "file"}, varkw |-> FALSE,
            defaults |-> ("path" :> None)]
      [] f \in {"zeroize", "lock", "unlock", "commit_check"} ->
           [required |-> {}, varkw |-> FALSE, defaults |-> EmptyKw]
      [] OTHER ->   \* set_hostname, commit, shutdown, install_config, install_os, load
           [required |-> {}, varkw |-> TRUE, defaults |-> EmptyKw]

Params(sig) == sig.required \cup DOMAIN sig.defaults

\* a Python call binds iff no required parameter is missing and, without
\* **kwargs, no unknown keyword is supplied; otherwise TypeError
Binds(sig, kw) ==
    /\ sig.required \subseteq DOMAIN kw
    /\ (sig.varkw \/ DOMAIN kw \subseteq Params(sig))

Arg(sig, kw, p) == IF p \in DOMAIN kw THEN kw[p] ELSE sig.defaults[p]

KwArgs(sig, kw) == [k \in DOMAIN kw \ Params(sig) |-> kw[k]]

(***************************************************************************)
(* The session behind __salt__                                             *)
(***************************************************************************)
Session == [state |-> state, candidate |-> candidate,
            active |-> active, history |-> history]

Ok(s) == [s |-> s, err |-> "none"]
Fail(s, e) == [s |-> s, err |-> e]

DeviceError(fn) ==
    CASE fn = "junos.commit" -> "CommitError"
      [] fn \in {"junos.load", "junos.install_config", "junos.set_hostname"} -> "ParseError"
      [] fn = "junos.commit_check" -> "ValidationError"
      [] fn \in {"junos.cli", "junos.rpc", "junos.get_table", "junos.diff"} -> "CommandError"
      [] OTHER -> "RpcError"

\* a new commit record becomes index 0, the others shift down, the oldest is evicted
PushRecord(h, c) ==
    LET h2 == <<c>> \o h
    IN  IF Len(h2) > HistoryCap THEN SubSeq(h2, 1, HistoryCap) ELSE h2

\* the single commit point: the candidate becomes active; nothing staged is a no-op
CommitPoint(s) ==
    IF s.candidate = s.active THEN s
    ELSE [s EXCEPT !.active = s.candidate,
                   !.history = PushRecord(s.history, s.candidate)]

ValidIndex(s, i) == i >= 0 /\ i <= RollbackIdMax /\ i < Len(s.history)

junos_lock(s, fault) ==
    IF s.state = "Locked" THEN Fail(s, "AlreadyLockedError")
    ELSE IF fault = "timeout" THEN Fail(s, "TimeoutError")
    ELSE IF fault = "reject" THEN Fail(s, DeviceError("junos.lock"))
    ELSE Ok([s EXCEPT !.state = "Locked"])

junos_unlock(s, fault) ==
    IF s.state # "Locked" THEN Fail(s, "NotLockedError")
    ELSE IF fault = "timeout" THEN Fail(s, "TimeoutError")
    ELSE IF fault = "reject" THEN Fail(s, DeviceError("junos.unlock"))
    ELSE Ok([s EXCEPT !.state = "Connected"])

junos_load(s, content, fault) ==
    IF s.state # "Locked" THEN Fail(s, "NotLockedError")
    ELSE IF fault = "timeout" THEN Fail(s, "TimeoutError")
    ELSE IF fault = "reject" THEN Fail(s, DeviceError("junos.load"))
    ELSE Ok([s EXCEPT !.candidate = content])

\* a commit that times out may or may not have been applied by the device
junos_commit(s, fault, applied) ==
    IF s.state # "Locked" THEN Fail(s, "NotLockedError")
    ELSE IF fault = "timeout"
         THEN Fail(IF applied THEN CommitPoint(s) ELSE s, "TimeoutError")
    ELSE IF fault = "reject" THEN Fail(s, DeviceError("junos.commit"))
    ELSE Ok(CommitPoint(s))

junos_commit_check(s, fault) ==
    IF fault = "timeout" THEN Fail(s, "TimeoutError")
    ELSE IF fault = "reject" THEN Fail(s, DeviceError("junos.commit_check"))
    ELSE Ok(s)

\* stages the historical configuration; it is not committed
junos_rollback(s, id, fault) ==
    IF s.state # "Locked" THEN Fail(s, "NotLockedError")
    ELSE IF ~ValidIndex(s, id) THEN Fail(s, "RollbackError")
    ELSE IF fault = "timeout" THEN Fail(s, "TimeoutError")
    ELSE IF fault = "reject" THEN Fail(s, DeviceError("junos.rollback"))
    ELSE Ok([s EXCEPT !.candidate = s.history[id + 1]])

junos_diff(s, id, fault) ==
    IF ~ValidIndex(s, id) THEN Fail(s, "RollbackError")
    ELSE IF fault = "timeout" THEN Fail(s, "TimeoutError")
    ELSE IF fault = "reject" THEN Fail(s, DeviceError("junos.diff"))
    ELSE Ok(s)

\* "Loads and commits the configuration provided."
junos_install_config(s, content, fault, applied) ==
    LET l == junos_load(s, content, IF fault = "reject" THEN "reject" ELSE "none")
    IN  IF l.err # "none" THEN l
        ELSE junos_commit(l.s, IF fault = "timeout" THEN "timeout" ELSE "none", applied)

\* "Changes the hostname of the device": stages the host-name and commits
junos_set_hostname(s, hostname, fault, applied) ==
    junos_install_config(s, hostname, fault, applied)

\* cli, rpc, get_table: the operational command executor
junos_command(s, fn, fault) ==
    IF fault = "timeout" THEN Fail(s, "TimeoutError")
    ELSE IF fault = "reject" THEN Fail(s, DeviceError(fn))
    ELSE Ok(s)

\* "Resets the device to default factory settings."
junos_zeroize(s, fault) ==
    IF fault = "timeout" THEN Fail(s, "TimeoutError")
    ELSE IF fault = "reject" THEN Fail(s, DeviceError("junos.zeroize"))
    ELSE Ok([s EXCEPT !.candidate = FactoryConfig, !.active = FactoryConfig,
                      !.history = <<FactoryConfig>>])

\* shutdown, install_os, file_copy: no effect on the configuration session
junos_admin(s, fn, fault) ==
    IF fault = "timeout" THEN Fail(s, "TimeoutError")
    ELSE IF fault = "reject" THEN Fail(s, DeviceError(fn))
    ELSE Ok(s)

\* the dispatch table: __salt__[fn](*args, **kwargs)
Salt(fn, args, kwargs, s, fault, applied) ==
    CASE fn = "junos.lock" -> junos_lock(s, fault)
      [] fn = "junos.unlock" -> junos_unlock(s, fault)
      [] fn = "junos.load" -> junos_load(s, args[1], fault)
      [] fn = "junos.commit" -> junos_commit(s, fault, applied)
      [] fn = "junos.commit_check" -> junos_commit_check(s, fault)
      [] fn = "junos.rollback" -> junos_rollback(s, args[1], fault)
      [] fn = "junos.diff" -> junos_diff(s, args[1], fault)
      [] fn = "junos.install_config" -> junos_install_config(s, args[1], fault, applied)
      [] fn = "junos.set_hostname" -> junos_set_hostname(s, args[1], fault, applied)
      [] fn = "junos.zeroize" -> junos_zeroize(s, fault)
      [] fn \in {"junos.cli", "junos.rpc", "junos.get_table"} -> junos_command(s, fn, fault)
      [] OTHER -> junos_admin(s, fn, fault)

(***************************************************************************)
(* The state functions                                                     *)
(***************************************************************************)
\* mutant: the payload is never stored, 'changes' keeps its initial {}
MakeRet_changes_not_stored(name, payload) ==
    [name |-> name, changes |-> EmptyKw, result |-> TRUE, comment |-> ""]

\* ret = {'name': name, 'changes': {}, 'result': True, 'comment': ''}
\* ret['changes'] = <payload>
MakeRet(name, payload) ==
    [name |-> name, changes |-> payload, result |-> TRUE, comment |-> ""]

Payload(r) == [out |-> r.out, message |-> r.message]

\* the call did not bind: Python raises TypeError before the body runs
TypeErrorStep(f, name, kw) ==
    /\ op' = f
    /\ call' = [name |-> name, kw |-> kw]
    /\ calls' = <<>>
    /\ reply' = NoReply
    /\ ret' = NoRet
    /\ raised' = "TypeError"
    /\ UNCHANGED <<state, candidate, active, history>>

\* the body of a state function: one __salt__ call; what it returns becomes
\* ret['changes'], what it raises propagates (there is no try/except)
Body(f, name, kw, fn, args, kwargs) ==
    \E fault \in Faults(fn), applied \in BOOLEAN, raises \in BOOLEAN :
        LET o == Salt(fn, args, kwargs, Session, fault, applied)
            failed == o.err # "none"
            r == [raised |-> failed /\ raises, out |-> ~failed, message |-> o.err]
        IN  /\ (applied => fault = "timeout")
            /\ (raises => failed)
            /\ state' = o.s.state
            /\ candidate' = o.s.candidate
            /\ active' = o.s.active
            /\ history' = o.s.history
            /\ op' = f
            /\ call' = [name |-> name, kw |-> kw]
            /\ calls' = <<[fn |-> fn, args |-> args, kwargs |-> kwargs]>>
            /\ reply' = r
            /\ ret' = IF r.raised THEN NoRet ELSE MakeRet(name, Payload(r))
            /\ raised' = IF r.raised THEN o.err ELSE "none"

\* two __salt__ calls in one state function (used by the mutants only): fnA
\* is answered by the device, then fnB runs under the device's fault
BodyTwo(f, name, kw, fnA, argsA, fnB, argsB, kwargsB) ==
    \E fault \in Faults(fnB), applied \in BOOLEAN, raises \in BOOLEAN :
        LET a == Salt(fnA, argsA, EmptyKw, Session, "none", FALSE)
            o == Salt(fnB, argsB, kwargsB, a.s, fault, applied)
            failed == o.err # "none"
            r == [raised |-> failed /\ raises, out |-> ~failed, message |-> o.err]
        IN  /\ (applied => fault = "timeout")
            /\ (raises => failed)
            /\ state' = o.s.state
            /\ candidate' = o.s.candidate
            /\ active' = o.s.active
            /\ history' = o.s.history
            /\ op' = f
            /\ call' = [name |-> name, kw |-> kw]
            /\ calls' = <<[fn |-> fnA, args |-> argsA, kwargs |-> EmptyKw],
                          [fn |-> fnB, args |-> argsB, kwargs |-> kwargsB]>>
            /\ reply' = r
            /\ ret' = IF r.raised THEN NoRet ELSE MakeRet(name, Payload(r))
            /\ raised' = IF r.raised THEN o.err ELSE "none"

Init ==
    /\ state = "Connected"
    /\ candidate = FactoryConfig
    /\ active = FactoryConfig
    /\ history = <<FactoryConfig>>
    /\ op = "none"
    /\ call = [name |-> 0, kw |-> EmptyKw]
    /\ calls = <<>>
    /\ reply = NoReply
    /\ ret = NoRet
    /\ raised = "none"

(***************************************************************************)
(* The keyword arguments the orchestration layer supplies                  *)
(***************************************************************************)
KwPlain == {("timeout" :> 30)}
KwNone == {EmptyKw}
KwRpc ==
    {EmptyKw, ("args" :> ArgsNone), ("args" :> ArgsSeq(<<>>)), ("args" :> ArgsSeq(<<"a">>)),
     ("timeout" :> 30 @@ "args" :> ArgsSeq(<<>>)), ("timeout" :> 30),
     ("dest" :> "/d" @@ "format" :> "json" @@ "args" :> ArgsSeq(<<"a", "b">>))}
KwRollback ==
    {EmptyKw, ("timeout" :> 30)} \cup {("id" :> i) : i \in IdVals}
KwDiff ==
    {EmptyKw, ("id" :> 0), ("id" :> 1)} \cup {("d_id" :> i) : i \in IdVals}
KwCli == {EmptyKw, ("format" :> "xml" @@ "timeout" :> 30)}
KwFileCopy == {EmptyKw, ("dest" :> "/d")}
KwGetTable ==
    {("table" :> "RouteTable" @@ "file" :> "routes.yml"),
     ("table" :> "RouteTable" @@ "file" :> "routes.yml" @@ "path" :> "/p")}

\* the ops that may push a commit record are cut off once the run's records are used up
CanCommit == Len(history) <= MaxCommits

\* mutant: args is dropped
rpc_args_dropped ==
    \E name \in Labels, kw \in KwRpc :
        LET sig == Signature("rpc")
        IN  Body("rpc", name, kw, "junos.rpc",
                 <<name, Arg(sig, kw, "dest"), Arg(sig, kw, "format")>>, KwArgs(sig, kw))

rpc ==
    \E name \in Labels, kw \in KwRpc :
        LET sig == Signature("rpc")
            dest == Arg(sig, kw, "dest")
            format == Arg(sig, kw, "format")
            args == Arg(sig, kw, "args")
        IN  IF ~Binds(sig, kw) THEN TypeErrorStep("rpc", name, kw)
            ELSE IF args.tag # "None"
                 THEN Body("rpc", name, kw, "junos.rpc",
                           <<name, dest, format>> \o args.val, KwArgs(sig, kw))
                 ELSE Body("rpc", name, kw, "junos.rpc",
                           <<name, dest, format>>, KwArgs(sig, kw))

set_hostname ==
    /\ CanCommit
    /\ \E name \in Names, kw \in KwPlain :
        LET sig == Signature("set_hostname")
        IN  IF ~Binds(sig, kw) THEN TypeErrorStep("set_hostname", name, kw)
            ELSE Body("set_hostname", name, kw, "junos.set_hostname",
                      <<name>>, KwArgs(sig, kw))

\* mutant: the commit is followed by a compensating unlock
commit_then_unlock ==
    /\ CanCommit
    /\ \E name \in Labels, kw \in KwPlain :
        BodyTwo("commit", name, kw, "junos.commit", <<>>, "junos.unlock", <<>>, EmptyKw)

commit ==
    /\ CanCommit
    /\ \E name \in Labels, kw \in KwPlain :
        LET sig == Signature("commit")
        IN  IF ~Binds(sig, kw) THEN TypeErrorStep("commit", name, kw)
            ELSE Body("commit", name, kw, "junos.commit", <<>>, KwArgs(sig, kw))

\* mutant: the rollback is committed in the same call
rollback_then_commit ==
    /\ CanCommit
    /\ \E name \in Labels, kw \in KwRollback :
        LET sig == Signature("rollback")
        IN  IF ~Binds(sig, kw) THEN TypeErrorStep("rollback", name, kw)
            ELSE BodyTwo("rollback", name, kw, "junos.rollback", <<Arg(sig, kw, "id")>>,
                         "junos.commit", <<>>, KwArgs(sig, kw))

\* mutant: the id is not passed on, the documented default is used
rollback_id_ignored ==
    \E name \in Labels, kw \in KwRollback :
        LET sig == Signature("rollback")
        IN  IF ~Binds(sig, kw) THEN TypeErrorStep("rollback", name, kw)
            ELSE Body("rollback", name, kw, "junos.rollback",
                      <<DefaultId>>, KwArgs(sig, kw))

rollback ==
    \E name \in Labels, kw \in KwRollback :
        LET sig == Signature("rollback")
        IN  IF ~Binds(sig, kw) THEN TypeErrorStep("rollback", name, kw)
            ELSE Body("rollback", name, kw, "junos.rollback",
                      <<Arg(sig, kw, "id")>>, KwArgs(sig, kw))

\* mutant: diff dispatches to junos.rollback
diff_calls_rollback ==
    \E name \in Labels, kw \in KwDiff :
        LET sig == Signature("diff")
        IN  IF ~Binds(sig, kw) THEN TypeErrorStep("diff", name, kw)
            ELSE Body("diff", name, kw, "junos.rollback",
                      <<Arg(sig, kw, "d_id")>>, EmptyKw)

diff ==
    \E name \in Labels, kw \in KwDiff :
        LET sig == Signature("diff")
        IN  IF ~Binds(sig, kw) THEN TypeErrorStep("diff", name, kw)
            ELSE Body("diff", name, kw, "junos.diff",
                      <<Arg(sig, kw, "d_id")>>, EmptyKw)

cli ==
    \E name \in Labels, kw \in KwCli :
        LET sig == Signature("cli")
        IN  IF ~Binds(sig, kw) THEN TypeErrorStep("cli", name, kw)
            ELSE Body("cli", name, kw, "junos.cli",
                      <<name, Arg(sig, kw, "format")>>, KwArgs(sig, kw))

shutdown ==
    \E name \in Labels, kw \in KwPlain :
        LET sig == Signature("shutdown")
        IN  IF ~Binds(sig, kw) THEN TypeErrorStep("shutdown", name, kw)
            ELSE Body("shutdown", name, kw, "junos.shutdown", <<>>, KwArgs(sig, kw))

install_config ==
    /\ CanCommit
    /\ \E name \in Names, kw \in KwPlain :
        LET sig == Signature("install_config")
        IN  IF ~Binds(sig, kw) THEN TypeErrorStep("install_config", name, kw)
            ELSE Body("install_config", name, kw, "junos.install_config",
                      <<name>>, KwArgs(sig, kw))

zeroize ==
    \E name \in Labels, kw \in KwNone :
        LET sig == Signature("zeroize")
        IN  IF ~Binds(sig, kw) THEN TypeErrorStep("zeroize", name, kw)
            ELSE Body("zeroize", name, kw, "junos.zeroize", <<>>, EmptyKw)

install_os ==
    \E name \in Labels, kw \in KwPlain :
        LET sig == Signature("install_os")
        IN  IF ~Binds(sig, kw) THEN TypeErrorStep("install_os", name, kw)
            ELSE Body("install_os", name, kw, "junos.install_os",
                      <<name>>, KwArgs(sig, kw))

file_copy ==
    \E name \in Labels, kw \in KwFileCopy :
        LET sig == Signature("file_copy")
        IN  IF ~Binds(sig, kw) THEN TypeErrorStep("file_copy", name, kw)
            ELSE Body("file_copy", name, kw, "junos.file_copy",
                      <<name, Arg(sig, kw, "dest")>>, KwArgs(sig, kw))

lock ==
    \E name \in Labels, kw \in KwNone :
        LET sig == Signature("lock")
        IN  IF ~Binds(sig, kw) THEN TypeErrorStep("lock", name, kw)
            ELSE Body("lock", name, kw, "junos.lock", <<>>, EmptyKw)

\* mutant: unlock dispatches to junos.lock
unlock_calls_lock ==
    \E name \in Labels, kw \in KwNone :
        Body("unlock", name, kw, "junos.lock", <<>>, EmptyKw)

unlock ==
    \E name \in Labels, kw \in KwNone :
        LET sig == Signature("unlock")
        IN  IF ~Binds(sig, kw) THEN TypeErrorStep("unlock", name, kw)
            ELSE Body("unlock", name, kw, "junos.unlock", <<>>, EmptyKw)

\* mutant: load takes the lock for the caller
load_takes_lock ==
    \E name \in Names, kw \in KwPlain :
        BodyTwo("load", name, kw, "junos.lock", <<>>, "junos.load", <<name>>, kw)

load ==
    \E name \in Names, kw \in KwPlain :
        LET sig == Signature("load")
        IN  IF ~Binds(sig, kw) THEN TypeErrorStep("load", name, kw)
            ELSE Body("load", name, kw, "junos.load", <<name>>, KwArgs(sig, kw))

commit_check ==
    \E name \in Labels, kw \in KwNone :
        LET sig == Signature("commit_check")
        IN  IF ~Binds(sig, kw) THEN TypeErrorStep("commit_check", name, kw)
            ELSE Body("commit_check", name, kw, "junos.commit_check", <<>>, EmptyKw)

get_table ==
    \E name \in Labels, kw \in KwGetTable :
        LET sig == Signature("get_table")
        IN  IF ~Binds(sig, kw) THEN TypeErrorStep("get_table", name, kw)
            ELSE Body("get_table", name, kw, "junos.get_table",
                      <<Arg(sig, kw, "table"), Arg(sig, kw, "file"), Arg(sig, kw, "path")>>,
                      EmptyKw)

Next ==
    \/ rpc
    \/ set_hostname
    \/ commit
    \/ rollback
    \/ diff
    \/ cli
    \/ shutdown
    \/ install_config
    \/ zeroize
    \/ install_os
    \/ file_copy
    \/ lock
    \/ unlock
    \/ load
    \/ commit_check
    \/ get_table

Spec == Init /\ [][Next]_vars

TypeOK ==
    /\ state \in {"Connected", "Locked"}
    /\ candidate \in Configs /\ active \in Configs
    /\ Len(history) >= 1 /\ Len(history) <= MaxCommits + 1
    /\ history[1] = active

(***************************************************************************)
(* Properties                                                              *)
(***************************************************************************)
Called == op # "none"
Returned == Called /\ raised = "none"
Entered == Len(calls) >= 1          \* the call bound and the body ran
Failed == Entered /\ ~reply.out
IdPassed == calls[1].args[1]        \* the id handed to junos.rollback / junos.diff
IdGiven == call.kw["id"]            \* the id the caller supplied to rollback

Junos(f) ==
    CASE f = "rpc" -> "junos.rpc"
      [] f = "set_hostname" -> "junos.set_hostname"
      [] f = "commit" -> "junos.commit"
      [] f = "rollback" -> "junos.rollback"
      [] f = "diff" -> "junos.diff"
      [] f = "cli" -> "junos.cli"
      [] f = "shutdown" -> "junos.shutdown"
      [] f = "install_config" -> "junos.install_config"
      [] f = "zeroize" -> "junos.zeroize"
      [] f = "install_os" -> "junos.install_os"
      [] f = "file_copy" -> "junos.file_copy"
      [] f = "lock" -> "junos.lock"
      [] f = "unlock" -> "junos.unlock"
      [] f = "load" -> "junos.load"
      [] f = "commit_check" -> "junos.commit_check"
      [] f = "get_table" -> "junos.get_table"
      [] OTHER -> "none"

ConfigChangingOps == {"load", "commit", "rollback", "install_config", "set_hostname"}
CommittingOps == {"commit", "install_config", "set_hostname"}
ReadOnlyOps == {"cli", "rpc", "get_table", "diff"}
LockErrors == {"NotLockedError", "AlreadyLockedError"}

\* C1: every state function that returns, returns a record with exactly the
\* fields name, changes, result, comment; name is the caller's name, changes is
\* what the __salt__ call returned, result is a boolean, comment a string.
C1_UniformRecord ==
    Returned =>
        /\ DOMAIN ret = {"name", "changes", "result", "comment"}
        /\ ret.name = call.name
        /\ Entered
        /\ ret.changes = Payload(reply)
        /\ ret.result \in BOOLEAN
        /\ ret.comment \in STRING

C1_Witness ==
    /\ op = "get_table" /\ Returned /\ ret.name = 1
    /\ ret.changes = [out |-> TRUE, message |-> "none"]

\* C2 (as claimed): the returned result is false whenever the __salt__ call
\* reported a failure in its payload, and true only when it succeeded.
C2_ResultReflectsOutcome ==
    Returned => (ret.result <=> ret.changes.out)

\* C3: a configuration-changing state function called while the session is not
\* Locked fails with NotLockedError, leaves candidate and active configuration
\* alone and does not take the lock.
C3_NotLockedFailsFast ==
    [][ (op' \in ConfigChangingOps /\ Entered' /\ state # "Locked") =>
            /\ ~reply'.out
            /\ reply'.message = "NotLockedError"
            /\ (raised' = "NotLockedError" \/ ret'.changes.message = "NotLockedError")
            /\ candidate' = candidate
            /\ active' = active
            /\ history' = history
            /\ state' = state ]_vars

C3_Witness ==
    /\ op = "load" /\ Entered /\ state = "Connected"
    /\ reply.message = "NotLockedError" /\ candidate # call.name

\* C4: the lock state moves only Connected -> Locked by a successful lock and
\* Locked -> Connected by a successful unlock; lock while Locked fails and the
\* lock stays held; unlock while not Locked fails.
C4_LockStateMachine ==
    [][ /\ (state' # state =>
              \/ (op' = "lock" /\ reply'.out /\ state = "Connected" /\ state' = "Locked")
              \/ (op' = "unlock" /\ reply'.out /\ state = "Locked" /\ state' = "Connected"))
        /\ (op' = "lock" /\ Entered' /\ reply'.out => state' = "Locked" /\ state = "Connected")
        /\ (op' = "unlock" /\ Entered' /\ reply'.out => state' = "Connected" /\ state = "Locked")
        /\ (op' = "lock" /\ Entered' /\ state = "Locked" => ~reply'.out /\ state' = "Locked")
        /\ (op' = "unlock" /\ Entered' /\ state # "Locked" => ~reply'.out) ]_vars

C4_Witness ==
    /\ op = "lock" /\ Entered /\ state = "Locked"
    /\ ~reply.out /\ reply.message = "AlreadyLockedError"

BadIndex(i, h) == i < 0 \/ i > RollbackIdMax \/ i > Len(h)

C7_OneCallNoRepair ==
    [][ Called' =>
          /\ Len(calls') <= 1
          /\ (raised' # "TypeError" =>
                 /\ Len(calls') = 1
                 /\ calls'[1].fn = Junos(op'))
          /\ (Failed' =>
                 /\ state' = state
                 /\ \/ raised' = reply'.message
                    \/ (Returned' /\ ret'.changes = [out |-> FALSE, message |-> reply'.message]))
          /\ (op' = "commit" /\ Entered' /\ reply'.message = "TimeoutError" =>
                 state = "Locked" /\ state' = "Locked") ]_vars

C7_Witness ==
    /\ op = "commit" /\ Len(calls) = 1 /\ reply.message = "TimeoutError"
    /\ raised = "TimeoutError" /\ state = "Locked" /\ candidate # active

\* C8: cli, rpc, get_table and diff are accepted in every lock state (they never
\* fail for the lock state) and leave lock state, candidate, active
\* configuration and history unchanged.
C8_ReadOnly ==
    [][ (op' \in ReadOnlyOps /\ Entered') =>
            /\ reply'.message \notin LockErrors
            /\ state' = state
            /\ candidate' = candidate
            /\ active' = active
            /\ history' = history ]_vars

C8_Witness ==
    /\ op = "diff" /\ Entered /\ reply.out
    /\ state = "Locked" /\ candidate # active

\* C9 (as claimed): rollback and diff called without an id delegate with id 0,
\* and diff called with the documented key id delegates with that value.
C9_IdOptional ==
    /\ (op \in {"rollback", "diff"} /\ DOMAIN call.kw \cap {"id", "d_id"} = {} =>
            /\ raised # "TypeError"
            /\ Len(calls) = 1
            /\ IdPassed = DefaultId)
    /\ (op = "diff" /\ "id" \in DOMAIN call.kw =>
            /\ raised # "TypeError"
            /\ Len(calls) = 1
            /\ IdPassed = call.kw["id"])

\* C10: rpc calls junos.rpc with (name, dest, format) followed by the elements
\* of args when args is not None and with (name, dest, format) alone when it is
\* None, the other keywords passed through; so args = () delegates as args = None.
C10_RpcArgs ==
    (op = "rpc" /\ Called) =>
        LET kw == call.kw
            dest == IF "dest" \in DOMAIN kw THEN kw["dest"] ELSE None
            format == IF "format" \in DOMAIN kw THEN kw["format"] ELSE "xml"
            extra == IF "args" \in DOMAIN kw /\ kw["args"].tag = "seq"
                     THEN kw["args"].val ELSE <<>>
        IN  /\ Len(calls) = 1
            /\ calls[1].fn = "junos.rpc"
            /\ calls[1].args = <<call.name, dest, format>> \o extra
            /\ Len(calls[1].args) = 3 + Len(extra)
            /\ calls[1].kwargs = [k \in DOMAIN kw \ {"dest", "format", "args"} |-> kw[k]]

C10_Witness ==
    /\ op = "rpc" /\ Len(calls) = 1
    /\ call.kw = ("timeout" :> 30 @@ "args" :> ArgsSeq(<<>>))
    /\ calls[1].args = <<call.name, None, "xml">>
    /\ calls[1].kwargs = ("timeout" :> 30)
====
